---- MODULE Spec2Model ----
(***************************************************************************)
(* The request/response translation layer of server.py: the two handlers   *)
(* provide_completion and provide_diagnostics, and the helpers they use    *)
(* (get_completion_kind, create_range, get_virtual_path, the line and      *)
(* column translation).                                                    *)
(*                                                                         *)
(* The analysis engine (jedi) and the syntax checker (ast.parse) are       *)
(* collaborators outside the repository.  What they report for a request   *)
(* is drawn from every outcome of their interface, except in the replay    *)
(* of the test client's scenarios (SpecStateless), where they are the      *)
(* fixed, deterministic tables ast_parse and jedi_complete.                *)
(*                                                                         *)
(* Both handlers are `async def` without a single await: the event loop    *)
(* runs each of them to completion before it starts another, so a handler  *)
(* is one atomic action.                                                   *)
(***************************************************************************)
EXTENDS Integers, Sequences, FiniteSets, TLC

VARIABLES
    phase,         \* "idle": waiting for a request; "responded": a response is ready
    request,       \* the request being answered: [op, body]
    engine_calls,  \* the calls the handler made on the engine, in order
    outcome,       \* what the collaborator reported for this request
    response,      \* the HTTP response of the request
    log,           \* the (request, response) pairs answered so far (SpecStateless)
    call,          \* a direct call of a helper function: [fn, args] (SpecHelpers)
    result         \* the value that call returned

vars == <<phase, request, engine_calls, outcome, response, log, call, result>>

----------------------------------------------------------------------------
(* Bounds of the model *)

\* client positions range over -1 .. MaxPos
MaxPos == 1
\* the engine returns at most MaxMatches matches
MaxMatches == 2
\* the parser reports lineno and offset in -1 .. MaxLineno, or None
MaxLineno == 2
\* arguments of the helpers called directly range over 0 .. MaxCoord
MaxCoord == 2
\* number of requests replayed in SpecStateless
MaxLog == 3

----------------------------------------------------------------------------
(* Python values *)

\* Optional[int]: None is the empty tuple, the integer n is <<n>>
None == <<>>
Some(n) == <<n>>
OptInts(S) == {None} \cup {Some(n) : n \in S}

\* truth value of an Optional[int], as `x or y` tests it: None and 0 are false
Truthy(x) == x # None /\ x[1] # 0

\* x or y
PyOr(x, y) == IF Truthy(x) THEN x[1] ELSE y

----------------------------------------------------------------------------
(* Helpers of server.py *)

COMPLETION_KINDS ==
    ("module" :> 9) @@ ("class" :> 7) @@ ("instance" :> 6) @@ ("function" :> 3) @@
    ("param" :> 6) @@ ("path" :> 17) @@ ("keyword" :> 14) @@ ("property" :> 10) @@
    ("method" :> 2)

\* a lookup whose default is 0 instead of 1
get_completion_kind_default0(type_name) ==
    IF type_name \in DOMAIN COMPLETION_KINDS THEN COMPLETION_KINDS[type_name] ELSE 0

\* COMPLETION_KINDS.get(type_name, 1)
get_completion_kind(type_name) ==
    IF type_name \in DOMAIN COMPLETION_KINDS THEN COMPLETION_KINDS[type_name] ELSE 1

\* end_line and end_column are Optional[int] (None when the caller omits them)
create_range(line, column, end_line, end_column) ==
    LET end_line_1 == PyOr(end_line, line)
        end_column_1 == PyOr(end_column, column + 1)
    IN  [start |-> [line |-> line, character |-> column],
         end |-> [line |-> end_line_1, character |-> end_column_1]]

\* the documents of the test client
code_with_error ==
    "\ndef hello():\n    print(\"Hello, world!\")\n    \n# This line has a syntax error\nif True\n    print(\"This is broken\")\n    \nhello()\n"

code_local_module == "import example_module\n\nexample_module."

\* the texts of the model: the empty document, a valid one, and the test client's
Documents == {"", "x = 1\n", code_with_error, code_local_module}

\* hashlib.md5(document_text.encode()).hexdigest(), by its values on Documents
md5_hexdigest(document_text) ==
    CASE document_text = "" -> "d41d8cd98f00b204e9800998ecf8427e"
      [] document_text = "x = 1\n" -> "3253b41059cac6e987c5a5e9233ea5d0"
      [] document_text = code_with_error -> "378e967fac82103ba12da43c96df91f0"
      [] document_text = code_local_module -> "480b55020f3e9cf793e9a16eda023e68"

\* f"<virtual_document_{content_hash}.py>"
get_virtual_path(document_text) ==
    <<"<virtual_document_", md5_hexdigest(document_text), ".py>">>

\* the client line passed through without the + 1
toEngineLine_same(client_line) == client_line

\* line = params.position.line + 1
toEngineLine(client_line) == client_line + 1

\* the translation without the clamp at 0
toClientLine_unclamped(lineno) == IF lineno # None THEN lineno[1] - 1 ELSE 0

\* line = e.lineno - 1 if e.lineno is not None else 0; if line < 0: line = 0
toClientLine(lineno) ==
    LET line == IF lineno # None THEN lineno[1] - 1 ELSE 0
    IN  IF line < 0 THEN 0 ELSE line

\* col = e.offset - 1 if e.offset is not None else 0; if col < 0: col = 0
toClientColumn(offset) ==
    LET col == IF offset # None THEN offset[1] - 1 ELSE 0
    IN  IF col < 0 THEN 0 ELSE col

----------------------------------------------------------------------------
(* The collaborators' interface *)

SeqsUpTo(S, n) == UNION {[1..k -> S] : k \in 0..n}

\* names and categories of the engine's matches
Names == {"add", "Calculator"}
ServedTypes == {"function", "class", "param", "statement"}

\* a match of the engine: what completion.name and completion.type hold, what
\* completion.docstring() returns, and whether reading the match raises instead
Matches ==
    [name : Names, type : ServedTypes,
     docstring : {"Add two numbers and return the result."},
     raises : BOOLEAN]

\* what the engine does with one request: jedi.Script(...) raises (fault
\* "Script"), script.complete(...) raises (fault "complete"), or complete
\* returns the matches
EngineOutcomes ==
    [fault : {"Script", "complete"}, matches : {<<>>}, msg : {"engine fault"}]
    \cup [fault : {"none"}, matches : SeqsUpTo(Matches, MaxMatches), msg : {""}]

\* what ast.parse does with one text: returns ("ok"), raises SyntaxError with
\* lineno and offset (1-based, or None), or raises another exception
LinenoValues == OptInts(-1..MaxLineno)
ParseOutcomes ==
    [kind : {"ok"}, lineno : {None}, offset : {None}, msg : {""}]
    \cup [kind : {"SyntaxError"}, lineno : LinenoValues, offset : LinenoValues,
          msg : {"invalid syntax"}]
    \cup [kind : {"ValueError"}, lineno : {None}, offset : {None},
          msg : {"source code string cannot contain null bytes"}]

\* str(e) of a SyntaxError of ast.parse: "msg (<unknown>, line N)", and
\* "msg (<unknown>)" when lineno is None
SyntaxErrorStr(e) == [msg |-> e.msg, filename |-> "<unknown>", line |-> e.lineno]

----------------------------------------------------------------------------
(* Responses *)

\* 200 with CompletionResponse(items=...)
CompletionResponse(items) ==
    [status |-> 200, items |-> items, diagnostics |-> <<>>, detail |-> <<>>]

\* 200 with DiagnosticResponse(diagnostics=...)
DiagnosticResponse(diagnostics) ==
    [status |-> 200, items |-> <<>>, diagnostics |-> diagnostics, detail |-> <<>>]

\* HTTPException(status_code=500, detail=f"Completion error: {str(e)}")
HTTPException(status_code, detail) ==
    [status |-> status_code, items |-> <<>>, diagnostics |-> <<>>, detail |-> detail]

\* an exception that leaves the handler: the application answers 500
Unhandled == HTTPException(500, <<"Internal Server Error">>)

\* a body that fails the schema never reaches the handler: the application answers 422
Unprocessable == HTTPException(422, <<"value is not a valid integer">>)

NoResponse == HTTPException(0, <<>>)

----------------------------------------------------------------------------
(* provide_diagnostics *)

\* diagnostics = []
NewDiagnostics == <<>>

\* the diagnostic reported as a warning
SyntaxDiagnostic_warning(e) ==
    [range |-> create_range(toClientLine(e.lineno), toClientColumn(e.offset), None, None),
     message |-> SyntaxErrorStr(e),
     severity |-> 2]

\* the Diagnostic built in the except SyntaxError clause
SyntaxDiagnostic(e) ==
    LET line == toClientLine(e.lineno)
        col == toClientColumn(e.offset)
    IN  [range |-> create_range(line, col, None, None),
         message |-> SyntaxErrorStr(e),
         severity |-> 1]

\* a handler whose except clause catches every exception
provide_diagnostics_catch_all(params, parsed) ==
    IF parsed.kind = "ok"
    THEN DiagnosticResponse(NewDiagnostics)
    ELSE DiagnosticResponse(Append(NewDiagnostics, SyntaxDiagnostic(parsed)))

\* the handler's response; parsed is what ast.parse(document_text) did
provide_diagnostics(params, parsed) ==
    LET document_text == params.text
        diagnostics == NewDiagnostics
    IN  CASE parsed.kind = "ok" -> DiagnosticResponse(diagnostics)
          [] parsed.kind = "SyntaxError" ->
                DiagnosticResponse(Append(diagnostics, SyntaxDiagnostic(parsed)))
          [] OTHER -> Unhandled

----------------------------------------------------------------------------
(* provide_completion *)

\* a list that outlives the request: it starts as the items of the last answer
NewCompletionItems_shared ==
    IF log = <<>> THEN <<>> ELSE log[Len(log)].response.items

\* completion_items = []
NewCompletionItems == <<>>

\* CompletionItem(label=..., kind=..., detail=..., documentation=...)
CompletionItem(completion) ==
    [label |-> completion.name,
     kind |-> get_completion_kind(completion.type),
     detail |-> completion.type,
     documentation |-> completion.docstring]

\* a loop that puts each new item first
RECURSIVE BuildItems_prepend(_, _, _)
BuildItems_prepend(completions, k, items) ==
    IF k > Len(completions) THEN [raised |-> FALSE, items |-> items]
    ELSE IF completions[k].raises THEN [raised |-> TRUE, items |-> items]
    ELSE BuildItems_prepend(completions, k + 1, <<CompletionItem(completions[k])>> \o items)

\* a loop that skips the match it cannot read and goes on
RECURSIVE BuildItems_skip(_, _, _)
BuildItems_skip(completions, k, items) ==
    IF k > Len(completions) THEN [raised |-> FALSE, items |-> items]
    ELSE IF completions[k].raises THEN BuildItems_skip(completions, k + 1, items)
    ELSE BuildItems_skip(completions, k + 1, Append(items, CompletionItem(completions[k])))

\* the loop over completions from its k-th match on, items holding the items
\* already built: it ends with all the items, or with the exception that
\* reading the k-th match raised
RECURSIVE BuildItems(_, _, _)
BuildItems(completions, k, items) ==
    IF k > Len(completions) THEN [raised |-> FALSE, items |-> items]
    ELSE IF completions[k].raises THEN [raised |-> TRUE, items |-> items]
    ELSE BuildItems(completions, k + 1, Append(items, CompletionItem(completions[k])))

\* the calls the handler makes on the engine: jedi.Script(code=, path=), and
\* script.complete(line, character) once the script exists
EngineCalls(params, eng) ==
    LET document_text == params.text_document.text
        line == toEngineLine(params.position.line)
        character == params.position.character
        path == get_virtual_path(document_text)
        Script == [fn |-> "Script", code |-> document_text, path |-> path]
        complete == [fn |-> "complete", line |-> line, column |-> character]
    IN  IF eng.fault = "Script" THEN <<Script>> ELSE <<Script, complete>>

\* the handler's response; eng is what the engine did
provide_completion(params, eng) ==
    LET built == BuildItems(eng.matches, 1, NewCompletionItems)
    IN  IF eng.fault # "none"
        THEN HTTPException(500, <<"Completion error: ", eng.msg>>)
        ELSE IF built.raised
        THEN HTTPException(500, <<"Completion error: ", "engine fault">>)
        ELSE CompletionResponse(built.items)

----------------------------------------------------------------------------
(* The request boundary *)

\* a position as it arrives in the JSON body: a field is an integer, or None
\* when it is missing or null
RawPositions == [line : OptInts(-1..MaxPos), character : OptInts(-1..MaxPos)]

CompletionBodies == [text_document : [text : Documents], position : RawPositions]

DiagnosticBodies == [text : Documents]

\* class Position(BaseModel): line: int, character: int
PositionValid(position) == position.line # None /\ position.character # None

\* the CompletionParams object the handler receives for a valid body
CompletionParams(body) ==
    [text_document |-> body.text_document,
     position |-> [line |-> body.position.line[1],
                   character |-> body.position.character[1]]]

----------------------------------------------------------------------------
(* The collaborators on the documents of the test client (SpecStateless) *)

\* ast.parse(text) of CPython 3.11 on Documents
ast_parse(text) ==
    CASE text = code_with_error ->
            [kind |-> "SyntaxError", lineno |-> Some(6), offset |-> Some(8),
             msg |-> "expected ':'"]
      [] text = code_local_module ->
            [kind |-> "SyntaxError", lineno |-> Some(3), offset |-> Some(16),
             msg |-> "invalid syntax"]
      [] OTHER -> [kind |-> "ok", lineno |-> None, offset |-> None, msg |-> ""]

\* the public members of example_module, as the engine orders them
example_module_members ==
    << [name |-> "add", type |-> "function",
        docstring |-> "Add two numbers and return the result.", raises |-> FALSE],
       [name |-> "Calculator", type |-> "class",
        docstring |-> "A simple calculator class.", raises |-> FALSE],
       [name |-> "divide", type |-> "function",
        docstring |-> "Divide a by b and return the result.", raises |-> FALSE],
       [name |-> "multiply", type |-> "function",
        docstring |-> "Multiply two numbers and return the result.", raises |-> FALSE],
       [name |-> "subtract", type |-> "function",
        docstring |-> "Subtract b from a and return the result.", raises |-> FALSE] >>

\* number of lines of a document, as the engine counts them
LineCount(code) ==
    CASE code = "" -> 1
      [] code = "x = 1\n" -> 2
      [] code = code_with_error -> 10
      [] code = code_local_module -> 3

\* jedi.Script(code, path).complete(line, column) as a deterministic engine:
\* a line outside the document is a ValueError, the members of example_module
\* are offered after "example_module.", nothing elsewhere
jedi_complete(code, path, line, column) ==
    IF line < 1 \/ line > LineCount(code) \/ column < 0
    THEN [fault |-> "complete", matches |-> <<>>,
          msg |-> "line parameter is not in a valid range."]
    ELSE IF code = code_local_module /\ line = 3 /\ column = 15
    THEN [fault |-> "none", matches |-> example_module_members, msg |-> ""]
    ELSE [fault |-> "none", matches |-> <<>>, msg |-> ""]

\* the requests of the test client, and some at other positions
ReplayCompletions ==
    { [text_document |-> [text |-> t],
       position |-> [line |-> Some(p[1]), character |-> Some(p[2])]] :
      t \in {"x = 1\n", code_local_module},
      p \in {<<0, 0>>, <<2, 14>>, <<2, 15>>, <<5, 0>>} }

----------------------------------------------------------------------------
(* The server *)

NoRequest == [op |-> "none", body |-> <<>>]
NoOutcome == [kind |-> "none"]
NoCall == [fn |-> "none", args |-> <<>>]

Init ==
    /\ phase = "idle"
    /\ request = NoRequest
    /\ engine_calls = <<>>
    /\ outcome = NoOutcome
    /\ response = NoResponse
    /\ log = <<>>
    /\ call = NoCall
    /\ result = <<>>

\* one request answered: the response is ready; keep says whether the pair is logged
Answer(req, calls, out, resp, keep) ==
    /\ phase = "idle"
    /\ phase' = "responded"
    /\ request' = req
    /\ engine_calls' = calls
    /\ outcome' = out
    /\ response' = resp
    /\ log' = IF keep
              THEN Append(log, [request |-> req, engine_calls |-> calls, response |-> resp])
              ELSE log
    /\ UNCHANGED <<call, result>>

\* POST /completion with a body that fails the schema: the handler does not run
RejectCompletion(body) ==
    /\ ~PositionValid(body.position)
    /\ Answer([op |-> "completion", body |-> body], <<>>, NoOutcome, Unprocessable, FALSE)

\* POST /completion: provide_completion runs on the validated params
Completion(body, eng, keep) ==
    /\ PositionValid(body.position)
    /\ LET params == CompletionParams(body)
       IN  Answer([op |-> "completion", body |-> body], EngineCalls(params, eng), eng,
                  provide_completion(params, eng), keep)

\* POST /diagnostic: provide_diagnostics runs
Diagnostics(body, parsed, keep) ==
    Answer([op |-> "diagnostic", body |-> body], <<>>, parsed,
           provide_diagnostics(body, parsed), keep)

\* the response is sent; nothing of the request is kept
Deliver ==
    /\ phase = "responded"
    /\ phase' = "idle"
    /\ request' = NoRequest
    /\ engine_calls' = <<>>
    /\ outcome' = NoOutcome
    /\ response' = NoResponse
    /\ UNCHANGED <<log, call, result>>

\* The server takes a request only when it is idle: a handler has no await, so
\* the event loop runs it to its end before the next request.
PostCompletionRejected ==
    /\ phase = "idle"
    /\ \E body \in CompletionBodies : RejectCompletion(body)

PostCompletion ==
    /\ phase = "idle"
    /\ \E body \in CompletionBodies, eng \in EngineOutcomes : Completion(body, eng, FALSE)

PostDiagnostic ==
    /\ phase = "idle"
    /\ \E body \in DiagnosticBodies, parsed \in ParseOutcomes :
            Diagnostics(body, parsed, FALSE)

Next == PostCompletionRejected \/ PostCompletion \/ PostDiagnostic \/ Deliver

Spec == Init /\ [][Next]_vars

----------------------------------------------------------------------------
(* The test client's requests replayed in any order against the deterministic *)
(* collaborators, every answer logged                                         *)

ReplayCompletion ==
    /\ phase = "idle"
    /\ Len(log) < MaxLog
    /\ \E body \in ReplayCompletions :
         LET params == CompletionParams(body)
         IN  Completion(body,
                        jedi_complete(params.text_document.text,
                                      get_virtual_path(params.text_document.text),
                                      toEngineLine(params.position.line),
                                      params.position.character),
                        TRUE)

ReplayDiagnostics ==
    /\ phase = "idle"
    /\ Len(log) < MaxLog
    /\ \E body \in DiagnosticBodies : Diagnostics(body, ast_parse(body.text), TRUE)

NextStateless == ReplayCompletion \/ ReplayDiagnostics \/ Deliver

SpecStateless == Init /\ [][NextStateless]_vars

----------------------------------------------------------------------------
(* The helpers called directly *)

Coords == 0..MaxCoord

\* the categories the engine documents, "parameter", and one it does not know
TypeNames == DOMAIN COMPLETION_KINDS \cup {"parameter", "statement"}

Apply(fn, args, value) ==
    /\ call' = [fn |-> fn, args |-> args]
    /\ result' = value
    /\ UNCHANGED <<phase, request, engine_calls, outcome, response, log>>

CallCreateRange ==
    /\ call = NoCall
    /\ \E line \in Coords, column \in Coords,
          end_line \in OptInts(Coords), end_column \in OptInts(Coords) :
            Apply("create_range", <<line, column, end_line, end_column>>,
                  create_range(line, column, end_line, end_column))

CallGetCompletionKind ==
    /\ call = NoCall
    /\ \E type_name \in TypeNames :
            Apply("get_completion_kind", <<type_name>>, get_completion_kind(type_name))

\* a client position sent to the engine as provide_completion sends it, and the
\* engine's line brought back as provide_diagnostics brings back e.lineno
Translate(line, character) ==
    LET params == [text_document |-> [text |-> ""],
                   position |-> [line |-> line, character |-> character]]
        sent == EngineCalls(params, [fault |-> "none", matches |-> <<>>, msg |-> ""])[2]
    IN  [engine_line |-> sent.line, engine_column |-> sent.column,
         client_line |-> toClientLine(Some(sent.line))]

CallTranslate ==
    /\ call = NoCall
    /\ \E line \in Coords, character \in Coords :
            Apply("translate", <<line, character>>, Translate(line, character))

Return ==
    /\ call # NoCall
    /\ call' = NoCall
    /\ result' = <<>>
    /\ UNCHANGED <<phase, request, engine_calls, outcome, response, log>>

NextHelpers == CallCreateRange \/ CallGetCompletionKind \/ CallTranslate \/ Return

SpecHelpers == Init /\ [][NextHelpers]_vars

----------------------------------------------------------------------------
(* The claims *)

Answered(op) == phase = "responded" /\ request.op = op

\* the Completion handler ran on the request and its response is ready
CompletionRan == Answered("completion") /\ PositionValid(request.body.position)

Max(a, b) == IF a >= b THEN a ELSE b

\* C1: the Diagnostics operation returns zero or one diagnostic: none when the
\* parse succeeds, and when the parse raises a syntax error exactly one, of
\* severity 1, whose message is the error's text; no diagnostic has severity
\* 2, 3 or 4.
C1_ZeroOrOneDiagnostic ==
    Answered("diagnostic") =>
        /\ Len(response.diagnostics) \in {0, 1}
        /\ outcome.kind = "ok" =>
              response.status = 200 /\ response.diagnostics = <<>>
        /\ outcome.kind = "SyntaxError" =>
              /\ response.status = 200
              /\ Len(response.diagnostics) = 1
              /\ response.diagnostics[1].severity = 1
              /\ response.diagnostics[1].message = SyntaxErrorStr(outcome)
        /\ \A i \in DOMAIN response.diagnostics :
              response.diagnostics[i].severity \notin {2, 3, 4}

C1_Witness ==
    /\ Answered("diagnostic")
    /\ outcome.kind = "SyntaxError"
    /\ Len(response.diagnostics) = 1
    /\ response.diagnostics[1].severity = 1

\* C2: for a syntax error with line and column each absent or any integer, the
\* diagnostic's range starts at (max(line - 1, 0), max(column - 1, 0)), an
\* absent line or column giving 0, and ends one character later on the same
\* line; every field of the range is >= 0.
C2_PointRange ==
    (Answered("diagnostic") /\ outcome.kind = "SyntaxError") =>
        LET range == response.diagnostics[1].range
            line == IF outcome.lineno = None THEN 0 ELSE Max(outcome.lineno[1] - 1, 0)
            character == IF outcome.offset = None THEN 0 ELSE Max(outcome.offset[1] - 1, 0)
        IN  /\ range.start = [line |-> line, character |-> character]
            /\ range.end = [line |-> line, character |-> character + 1]
            /\ range.start.line >= 0 /\ range.start.character >= 0
            /\ range.end.line >= 0 /\ range.end.character >= 0

C2_Witness ==
    /\ Answered("diagnostic")
    /\ outcome.kind = "SyntaxError"
    /\ outcome.lineno = None
    /\ outcome.offset = Some(0)
    /\ response.diagnostics[1].range.start = [line |-> 0, character |-> 0]
    /\ response.diagnostics[1].range.end = [line |-> 0, character |-> 1]

\* the table as the specification documents it, with the entry "parameter"
DocumentedKind(category) ==
    CASE category = "module" -> 9
      [] category = "class" -> 7
      [] category = "instance" -> 6
      [] category = "function" -> 3
      [] category = "parameter" -> 6
      [] category = "path" -> 17
      [] category = "keyword" -> 14
      [] category = "property" -> 10
      [] category = "method" -> 2
      [] OTHER -> 1

\* the table with the engine's category "param" in the place of "parameter"
AmendedKind(category) ==
    CASE category = "module" -> 9
      [] category = "class" -> 7
      [] category = "instance" -> 6
      [] category = "function" -> 3
      [] category = "param" -> 6
      [] category = "path" -> 17
      [] category = "keyword" -> 14
      [] category = "property" -> 10
      [] category = "method" -> 2
      [] OTHER -> 1

\* C3 as stated: the kind of every category is the documented integer, with
\* parameter -> 6, and 1 for every category that is not one of the nine
\* documented names.
C3_DocumentedTable ==
    call.fn = "get_completion_kind" => result = DocumentedKind(call.args[1])

\* C3, amended: the kind of every category is the integer of the table module
\* -> 9, class -> 7, instance -> 6, function -> 3, param -> 6, path -> 17,
\* keyword -> 14, property -> 10, method -> 2, and 1 for every other category
\* ("parameter" among them); every kind is one of 1, 2, 3, 6, 7, 9, 10, 14, 17.
C3_AmendedTable ==
    call.fn = "get_completion_kind" =>
        /\ result = AmendedKind(call.args[1])
        /\ result \in {1, 2, 3, 6, 7, 9, 10, 14, 17}

C3_Witness ==
    /\ call.fn = "get_completion_kind"
    /\ call.args = <<"statement">>
    /\ result = 1

\* C4: a successful Completion returns as many items as the engine returned
\* matches, the i-th item built from the i-th match (its label the match's
\* name, its kind the kind of the match's category): nothing is reordered,
\* dropped or deduplicated.
C4_ItemsFollowMatches ==
    (CompletionRan /\ response.status = 200) =>
        /\ Len(response.items) = Len(outcome.matches)
        /\ \A i \in DOMAIN outcome.matches :
              /\ response.items[i].label = outcome.matches[i].name
              /\ response.items[i].kind = get_completion_kind(outcome.matches[i].type)

C4_Witness ==
    /\ CompletionRan
    /\ response.status = 200
    /\ Len(outcome.matches) = 2
    /\ outcome.matches[1].name = outcome.matches[2].name
    /\ outcome.matches[1].type # outcome.matches[2].type
    /\ Len(response.items) = 2

\* a Completion during which a step raised: the script's construction, the call
\* of complete, or the reading of some match
Raised ==
    \/ outcome.fault # "none"
    \/ \E k \in DOMAIN outcome.matches : outcome.matches[k].raises

\* C5: when any step of a Completion raises, the request ends in a 500 with a
\* message and carries no item list, partial or empty, as a success; no step
\* is retried (the engine is called at most once for the script and once for
\* complete).
C5_ErrorNotPartialList ==
    (CompletionRan /\ Raised) =>
        /\ response.status = 500
        /\ response.items = <<>>
        /\ response.detail # <<>>
        /\ Len(engine_calls) <= 2
        /\ \A i, j \in DOMAIN engine_calls :
              engine_calls[i].fn = engine_calls[j].fn => i = j

C5_Witness ==
    /\ CompletionRan
    /\ Len(outcome.matches) = 2
    /\ ~outcome.matches[1].raises
    /\ outcome.matches[2].raises
    /\ response.status = 500

\* C6: in Diagnostics a syntax error always gives a success response with one
\* diagnostic, never a server error; any other exception of the parse always
\* gives a server error, never a success response.
C6_FailureKindsApart ==
    Answered("diagnostic") =>
        /\ outcome.kind = "SyntaxError" =>
              response.status = 200 /\ Len(response.diagnostics) = 1
        /\ outcome.kind \notin {"ok", "SyntaxError"} =>
              response.status = 500 /\ response.diagnostics = <<>>

C6_Witness ==
    /\ Answered("diagnostic")
    /\ outcome.kind = "ValueError"
    /\ response.status = 500

C8_DefaultsOnlyWhenOmitted ==
    call.fn = "create_range" =>
        LET line == call.args[1]
            column == call.args[2]
            end_line == call.args[3]
            end_column == call.args[4]
        IN  /\ result.start = [line |-> line, character |-> column]
            /\ result.end =
                 [line |-> IF end_line = None THEN line ELSE end_line[1],
                  character |-> IF end_column = None THEN column + 1 ELSE end_column[1]]

\* C9 as stated: a Completion request with a negative line or character is
\* rejected before the handler runs, so every call of complete receives a line
\* >= 1 and a character >= 0; a non-negative position, however large, reaches
\* the engine as (line + 1, character).
C9_NegativePositionRejected ==
    Answered("completion") =>
        LET position == request.body.position
            Negative(x) == x # None /\ x[1] < 0
        IN  /\ (Negative(position.line) \/ Negative(position.character)) =>
                  response.status = 422 /\ engine_calls = <<>>
            /\ \A i \in DOMAIN engine_calls :
                  engine_calls[i].fn = "complete" =>
                      /\ engine_calls[i].line >= 1
                      /\ engine_calls[i].column >= 0
                      /\ engine_calls[i].line = position.line[1] + 1
                      /\ engine_calls[i].column = position.character[1]

\* C10: a client line L >= 0 sent to the engine as L + 1 and brought back as
\* the Diagnostics handler brings an engine line back (minus 1, at least 0) is
\* L again; the character reaches the engine unchanged.
C10_LineRoundTrip ==
    call.fn = "translate" =>
        /\ result.engine_line = call.args[1] + 1
        /\ result.client_line = call.args[1]
        /\ result.engine_column = call.args[2]

C10_Witness ==
    /\ call.fn = "translate"
    /\ call.args = <<0, 1>>
    /\ result = [engine_line |-> 1, engine_column |-> 1, client_line |-> 0]

====
